---- MODULE Spec2Model ----
(***************************************************************************)
(* ECDS Shock Index: the factor normalizers, the risk classifier and the   *)
(* ShockIndexCalculator of src/src/ecds_shock_index/__init__.py.           *)
(*                                                                         *)
(* Numbers.  The program computes with floats; the model computes with     *)
(* exact rationals <<n, d>> in lowest terms (d > 0), so that clamping,     *)
(* the 1e-6 tolerance, the tier bounds and rounding to 4 decimals are      *)
(* decided by arithmetic and not by a table.  <<0, 0>> is NaN, the value   *)
(* an empty mean or maximum has.                                           *)
(*                                                                         *)
(* State.  The caller holds one calculator instance (calc) and makes       *)
(* calls; call records the last call: its operation, its arguments, what   *)
(* it returned or raised, and (for a frame argument) the argument as it    *)
(* is after the call.                                                      *)
(***************************************************************************)
EXTENDS Integers, Sequences, FiniteSets, TLC

VARIABLES calc, call

vars == <<calc, call>>

-----------------------------------------------------------------------------
(* Exact rational arithmetic standing for the program's float arithmetic.  *)

Abs(i) == IF i < 0 THEN -i ELSE i

RECURSIVE GCD(_, _)
GCD(a, b) == IF b = 0 THEN a ELSE GCD(b, a % b)

NaN == <<0, 0>>

IsNaN(x) == x[2] = 0

\* The rational n/d in lowest terms with a positive denominator.
Q(n, d) ==
    IF d = 0 THEN NaN
    ELSE LET g == GCD(Abs(n), Abs(d))
             s == IF d < 0 THEN -1 ELSE 1
         IN  <<s * (n \div g), Abs(d) \div g>>

Zero == <<0, 1>>
One == <<1, 1>>

LCM(a, b) == (a \div GCD(a, b)) * b

RAdd(x, y) ==
    IF IsNaN(x) \/ IsNaN(y) THEN NaN
    ELSE LET l == LCM(x[2], y[2])
         IN  Q(x[1] * (l \div x[2]) + y[1] * (l \div y[2]), l)

RNeg(x) == <<-x[1], x[2]>>

RSub(x, y) == RAdd(x, RNeg(y))

\* Cross-cancelled product: in lowest terms when x and y are.
RMul(x, y) ==
    IF IsNaN(x) \/ IsNaN(y) THEN NaN
    ELSE LET g1 == GCD(Abs(x[1]), y[2])
             g2 == GCD(Abs(y[1]), x[2])
         IN  <<(x[1] \div g1) * (y[1] \div g2), (x[2] \div g2) * (y[2] \div g1)>>

\* x / y for y # 0 (every division of the program is guarded against 0).
RDiv(x, y) ==
    IF IsNaN(x) \/ IsNaN(y) THEN NaN
    ELSE RMul(x, IF y[1] < 0 THEN <<-y[2], -y[1]>> ELSE <<y[2], y[1]>>)

\* Comparisons; any comparison with NaN is false, as for floats.
RLt(x, y) ==
    /\ ~IsNaN(x)
    /\ ~IsNaN(y)
    /\ IF x[2] = y[2] THEN x[1] < y[1]
       ELSE LET l == LCM(x[2], y[2])
            IN  x[1] * (l \div x[2]) < y[1] * (l \div y[2])

RLe(x, y) == ~IsNaN(x) /\ ~IsNaN(y) /\ ~RLt(y, x)

RAbs(x) == <<Abs(x[1]), x[2]>>

\* Python's min(a, b): b if b < a, else a.  max(a, b): b if b > a, else a.
PyMin(a, b) == IF RLt(b, a) THEN b ELSE a
PyMax(a, b) == IF RLt(a, b) THEN b ELSE a

\* round(x, 4): the nearest multiple of 1/10000, a tie going to the even
\* one; computed by long division, one decimal digit at a time.
RECURSIVE Digits(_, _, _, _)
Digits(acc, r, d, k) ==
    IF k = 0 THEN <<acc, r>>
    ELSE Digits(acc * 10 + ((r * 10) \div d), (r * 10) % d, d, k - 1)

NDIGITS == 4

round4(x) ==
    IF IsNaN(x) THEN NaN
    ELSE LET q0 == x[1] \div x[2]
             qr == Digits(q0, x[1] % x[2], x[2], NDIGITS)
             k  == qr[1]
             r2 == 2 * qr[2]
             up == r2 > x[2] \/ (r2 = x[2] /\ k % 2 = 1)
         IN  Q(IF up THEN k + 1 ELSE k, 10000)

-----------------------------------------------------------------------------
(* Risk tier thresholds and the factor-level scoring helpers.              *)

RISK_TIERS ==
    << [tier |-> "low",      lo |-> Q(0, 1),  hi |-> Q(1, 4)],
       [tier |-> "moderate", lo |-> Q(1, 4),  hi |-> Q(1, 2)],
       [tier |-> "high",     lo |-> Q(1, 2),  hi |-> Q(3, 4)],
       [tier |-> "critical", lo |-> Q(3, 4),  hi |-> Q(101, 100)] >>

\* clip_01 with the lower clamp forgotten.
clip_01_upper_only(value) == PyMin(One, value)

clip_01(value) == PyMax(Zero, PyMin(One, value))

Ok(v) == [raised |-> "none", ret |-> v]
Raise(msg) == [raised |-> "ValueError", msg |-> msg]

ccs_score(completeness_rate, mapping_coverage) ==
    Ok(clip_01(RDiv(RAdd(completeness_rate, mapping_coverage), Q(2, 1))))

\* eav_score without the "- 1.0" that centres the deviation on the baseline.
eav_score_uncentred(variance_ratio, baseline) ==
    IF RLe(baseline, Zero)
    THEN Raise("baseline must be greater than zero")
    ELSE Ok(clip_01(RAdd(Q(1, 2), RDiv(RDiv(variance_ratio, baseline), Q(2, 1)))))

eav_score(variance_ratio, baseline) ==
    IF RLe(baseline, Zero)
    THEN Raise("baseline must be greater than zero")
    ELSE Ok(clip_01(RAdd(Q(1, 2),
                         RDiv(RSub(RDiv(variance_ratio, baseline), One), Q(2, 1)))))

\* cpr_score rejecting only a negative max_shift.
cpr_score_negative_only(cutpoint_shift, max_shift) ==
    IF RLt(max_shift, Zero)
    THEN Raise("max_shift must be greater than zero")
    ELSE Ok(clip_01(RDiv(RAbs(cutpoint_shift), max_shift)))

cpr_score(cutpoint_shift, max_shift) ==
    IF RLe(max_shift, Zero)
    THEN Raise("max_shift must be greater than zero")
    ELSE Ok(clip_01(RDiv(RAbs(cutpoint_shift), max_shift)))

\* wm_score dividing without looking at max_weight first.
wm_score_unchecked(measure_weight, max_weight) ==
    Ok(clip_01(RDiv(measure_weight, max_weight)))

wm_score(measure_weight, max_weight) ==
    IF RLe(max_weight, Zero)
    THEN Raise("max_weight must be greater than zero")
    ELSE Ok(clip_01(RDiv(measure_weight, max_weight)))

\* The tier loop with the upper bound of a tier taken as inclusive.
RECURSIVE tier_from_closed(_, _)
tier_from_closed(score, i) ==
    IF i > Len(RISK_TIERS) THEN "critical"
    ELSE IF RLe(RISK_TIERS[i].lo, score) /\ RLe(score, RISK_TIERS[i].hi)
         THEN RISK_TIERS[i].tier
         ELSE tier_from_closed(score, i + 1)

\* The for loop over RISK_TIERS in insertion order, from entry i on.
RECURSIVE tier_from(_, _)
tier_from(score, i) ==
    IF i > Len(RISK_TIERS) THEN "critical"
    ELSE IF RLe(RISK_TIERS[i].lo, score) /\ RLt(score, RISK_TIERS[i].hi)
         THEN RISK_TIERS[i].tier
         ELSE tier_from(score, i + 1)

classify_risk(score) == tier_from(clip_01(score), 1)

-----------------------------------------------------------------------------
(* The calculator: a plain (not frozen) dataclass with four float fields.  *)

Fields == {"alpha_ccs", "beta_eav", "gamma_cpr", "delta_wm"}

\* The field defaults of the dataclass: 0.35, 0.25, 0.20, 0.20.
DefaultWeights == <<Q(35, 100), Q(25, 100), Q(20, 100), Q(20, 100)>>

\* The tolerance 1e-6 of __post_init__.
TOLERANCE == Q(1, 1000000)

NoCalc == [none |-> TRUE]

\* Python's sum(weights): 0 + w[1] + ... + w[n], from the left.
RECURSIVE py_sum(_, _)
py_sum(ws, acc) == IF ws = <<>> THEN acc ELSE py_sum(Tail(ws), RAdd(acc, Head(ws)))

\* __post_init__ rejecting a sum that deviates by exactly the tolerance.
post_init_strict(self) ==
    LET weights == <<self.alpha_ccs, self.beta_eav, self.gamma_cpr, self.delta_wm>>
        total == py_sum(weights, Zero)
    IN  IF \E i \in 1..Len(weights) : RLt(weights[i], Zero)
        THEN Raise("All weights must be non-negative")
        ELSE IF RLe(TOLERANCE, RAbs(RSub(total, One)))
             THEN Raise("Weights must sum to 1.0")
             ELSE Ok("None")

post_init(self) ==
    LET weights == <<self.alpha_ccs, self.beta_eav, self.gamma_cpr, self.delta_wm>>
        total == py_sum(weights, Zero)
    IN  IF \E i \in 1..Len(weights) : RLt(weights[i], Zero)
        THEN Raise("All weights must be non-negative")
        ELSE IF RLt(TOLERANCE, RAbs(RSub(total, One)))
             THEN Raise("Weights must sum to 1.0")
             ELSE Ok("None")

\* ShockIndexCalculator(a, b, g, d): the generated __init__ stores the four
\* fields and runs __post_init__; the instance is returned only if that
\* does not raise.
ShockIndexCalculator(a, b, g, d) ==
    LET self == [alpha_ccs |-> a, beta_eav |-> b, gamma_cpr |-> g, delta_wm |-> d]
        r == post_init(self)
    IN  IF r.raised = "none" THEN Ok(self) ELSE r

\* calculate trusting its inputs to be factor scores already.
calculate_unclamped(self, ccs, eav, cpr, wm) ==
    Ok(clip_01(RAdd(RAdd(RAdd(RMul(self.alpha_ccs, ccs), RMul(self.beta_eav, eav)),
                         RMul(self.gamma_cpr, cpr)),
                    RMul(self.delta_wm, wm))))

\* calculate returning the weighted sum as it is, without the final clamp.
calculate_no_final_clamp(self, ccs, eav, cpr, wm) ==
    Ok(RAdd(RAdd(RAdd(RMul(self.alpha_ccs, clip_01(ccs)),
                      RMul(self.beta_eav, clip_01(eav))),
                 RMul(self.gamma_cpr, clip_01(cpr))),
            RMul(self.delta_wm, clip_01(wm))))

calculate(self, ccs, eav, cpr, wm) ==
    LET weighted ==
            RAdd(RAdd(RAdd(RMul(self.alpha_ccs, clip_01(ccs)),
                           RMul(self.beta_eav, clip_01(eav))),
                      RMul(self.gamma_cpr, clip_01(cpr))),
                 RMul(self.delta_wm, clip_01(wm)))
    IN  Ok(clip_01(weighted))

-----------------------------------------------------------------------------
(* Frames.  A pandas DataFrame is its column names and its rows in order;  *)
(* a row maps each column name to a value.  The column-wise apply calls of *)
(* the source are a map over the rows in order: no row, no call.           *)

REQUIRED_SCORE ==
    {"completeness_rate", "mapping_coverage", "variance_ratio", "cutpoint_shift",
     "measure_weight"}

REQUIRED_AGGREGATE == {"shock_index", "measure_weight"}

\* The required column names in the order Python's sorted() puts strings.
ColumnOrder ==
    <<"completeness_rate", "cutpoint_shift", "mapping_coverage", "measure_weight",
      "shock_index", "variance_ratio">>

\* list(missing) in the order the required set is written, not sorted.
sorted_names_unsorted(missing) ==
    LET Among(c) == c \in missing
    IN  SelectSeq(<<"completeness_rate", "mapping_coverage", "variance_ratio",
                    "cutpoint_shift", "measure_weight", "shock_index">>, Among)

\* sorted(missing)
sorted_names(missing) ==
    LET Among(c) == c \in missing IN SelectSeq(ColumnOrder, Among)

RaiseMissing(missing) ==
    [raised |-> "ValueError", msg |-> "DataFrame is missing required columns",
     names |-> sorted_names(missing)]

\* result = df: no copy, the column assignments write to the argument.
df_alias(df) == [obj |-> "argument", frame |-> df, out |-> Ok("None")]

\* df.copy(): a new frame object with the same content.  obj tells which
\* object later column assignments write to: the copy or the argument.
df_copy(df) == [obj |-> "copy", frame |-> df, out |-> Ok("None")]

\* frame[name] = values, one value per row; an existing column of that
\* name is replaced.
RECURSIVE with_values(_, _, _)
with_values(rows, name, values) ==
    IF rows = <<>> THEN <<>>
    ELSE <<(name :> Head(values)) @@ Head(rows)>>
             \o with_values(Tail(rows), name, Tail(values))

set_column(frame, name, values) ==
    [columns |-> frame.columns \cup {name}, rows |-> with_values(frame.rows, name, values)]

\* The default baseline of eav_score, used by score_dataframe.
DEFAULT_BASELINE == Q(1, 1)

\* The function score_dataframe applies to a row r to get column name.
derive(self, name, r, max_shift, max_weight) ==
    CASE name = "ccs" -> ccs_score(r["completeness_rate"], r["mapping_coverage"])
      [] name = "eav" -> eav_score(r["variance_ratio"], DEFAULT_BASELINE)
      [] name = "cpr" -> cpr_score(r["cutpoint_shift"], max_shift)
      [] name = "wm" -> wm_score(r["measure_weight"], max_weight)
      [] name = "shock_index" -> calculate(self, r["ccs"], r["eav"], r["cpr"], r["wm"])
      [] name = "risk_tier" -> Ok(classify_risk(r["shock_index"]))

\* An apply that computes the value of the first row and gives it to
\* every row.
apply_rows_first(self, name, rows, max_shift, max_weight, acc) ==
    IF rows = <<>> THEN Ok(acc)
    ELSE LET fill(r) ==
                 IF r.raised # "none" THEN r
                 ELSE Ok([i \in 1..Len(rows) |-> r.ret])
         IN  fill(derive(self, name, Head(rows), max_shift, max_weight))

\* Series.apply / DataFrame.apply(axis=1): the function is called on the
\* rows in order; the first call that raises ends the apply with that error.
RECURSIVE apply_rows(_, _, _, _, _, _)
apply_rows(self, name, rows, max_shift, max_weight, acc) ==
    IF rows = <<>> THEN Ok(acc)
    ELSE LET collect(r) ==
                 IF r.raised # "none" THEN r
                 ELSE apply_rows(self, name, Tail(rows), max_shift, max_weight,
                                 Append(acc, r.ret))
         IN  collect(derive(self, name, Head(rows), max_shift, max_weight))

\* result[name] = <apply>, from the method state st (the frame being built
\* and the error raised so far, if any); an error raised in the apply ends
\* the method.
assign_step(st, self, name, max_shift, max_weight) ==
    IF st.out.raised # "none" THEN st
    ELSE LET assign(values) ==
                 IF values.raised # "none"
                 THEN [st EXCEPT !.out = values]
                 ELSE [st EXCEPT !.frame = set_column(st.frame, name, values.ret)]
         IN  assign(apply_rows(self, name, st.frame.rows, max_shift, max_weight, <<>>))

\* The same, with the method state before the statement evaluated once.
assign_apply(before, self, name, max_shift, max_weight) ==
    CHOOSE after \in {assign_step(st, self, name, max_shift, max_weight) :
                         st \in {before}} : TRUE

\* The six column assignments of score_dataframe, in source order.
Assignments == <<"ccs", "eav", "cpr", "wm", "shock_index", "risk_tier">>

RECURSIVE assign_from(_, _, _, _, _)
assign_from(st, self, i, max_shift, max_weight) ==
    IF i > Len(Assignments) THEN st
    ELSE assign_from(assign_apply(st, self, Assignments[i], max_shift, max_weight),
                     self, i + 1, max_shift, max_weight)

\* score_dataframe(self, df, max_shift, max_weight).  out is what the call
\* returns or raises; arg is the caller's frame as it is after the call.
score_dataframe(self, df, max_shift, max_weight) ==
    IF REQUIRED_SCORE \ df.columns # {}
    THEN [out |-> RaiseMissing(REQUIRED_SCORE \ df.columns), arg |-> df]
    ELSE CHOOSE r \in {[out |-> IF end.out.raised = "none"
                                THEN Ok(end.frame) ELSE end.out,
                        arg |-> IF end.obj = "copy" THEN df ELSE end.frame] :
                          end \in {assign_from(df_copy(df), self, 1,
                                               max_shift, max_weight)}} : TRUE

\* Series.sum(), Series.mean(), Series.max() over a column, and the
\* element-wise product of two columns.
RECURSIVE series_sum(_, _)
series_sum(xs, acc) ==
    IF xs = <<>> THEN acc ELSE series_sum(Tail(xs), RAdd(acc, Head(xs)))

series_mean(xs) ==
    IF Len(xs) = 0 THEN NaN ELSE RDiv(series_sum(xs, Zero), Q(Len(xs), 1))

RECURSIVE series_max(_, _)
series_max(xs, acc) ==
    IF xs = <<>> THEN acc
    ELSE series_max(Tail(xs), IF IsNaN(acc) \/ RLt(acc, Head(xs)) THEN Head(xs) ELSE acc)

RECURSIVE column_of(_, _)
column_of(rows, name) ==
    IF rows = <<>> THEN <<>> ELSE <<Head(rows)[name]>> \o column_of(Tail(rows), name)

column(df, name) == column_of(df.rows, name)

RECURSIVE series_mul(_, _)
series_mul(xs, ys) ==
    IF xs = <<>> THEN <<>>
    ELSE <<RMul(Head(xs), Head(ys))>> \o series_mul(Tail(xs), Tail(ys))

\* aggregate_contract ignoring measure_weight in the weighted index.
aggregate_contract_unweighted(self, scored_df) ==
    LET missing == REQUIRED_AGGREGATE \ scored_df.columns
        shock == column(scored_df, "shock_index")
        weight == column(scored_df, "measure_weight")
        total_weight == series_sum(weight, Zero)
        weighted == IF total_weight = Zero THEN Zero ELSE series_mean(shock)
    IN  IF missing # {}
        THEN RaiseMissing(missing)
        ELSE Ok([weighted_shock_index |-> round4(weighted),
                 mean_shock_index |-> round4(series_mean(shock)),
                 max_shock_index |-> round4(series_max(shock, NaN)),
                 measure_count |-> Len(scored_df.rows),
                 risk_tier |-> classify_risk(weighted)])

\* aggregate_contract classifying the rounded weighted index.
aggregate_contract_tier_of_rounded(self, scored_df) ==
    LET missing == REQUIRED_AGGREGATE \ scored_df.columns
        shock == column(scored_df, "shock_index")
        weight == column(scored_df, "measure_weight")
        total_weight == series_sum(weight, Zero)
        weighted == IF total_weight = Zero
                    THEN Zero
                    ELSE RDiv(series_sum(series_mul(shock, weight), Zero), total_weight)
    IN  IF missing # {}
        THEN RaiseMissing(missing)
        ELSE Ok([weighted_shock_index |-> round4(weighted),
                 mean_shock_index |-> round4(series_mean(shock)),
                 max_shock_index |-> round4(series_max(shock, NaN)),
                 measure_count |-> Len(scored_df.rows),
                 risk_tier |-> classify_risk(round4(weighted))])

aggregate_contract(self, scored_df) ==
    LET missing == REQUIRED_AGGREGATE \ scored_df.columns
        shock == column(scored_df, "shock_index")
        weight == column(scored_df, "measure_weight")
        total_weight == series_sum(weight, Zero)
        weighted == IF total_weight = Zero
                    THEN Zero
                    ELSE RDiv(series_sum(series_mul(shock, weight), Zero), total_weight)
    IN  IF missing # {}
        THEN RaiseMissing(missing)
        ELSE Ok([weighted_shock_index |-> round4(weighted),
                 mean_shock_index |-> round4(series_mean(shock)),
                 max_shock_index |-> round4(series_max(shock, NaN)),
                 measure_count |-> Len(scored_df.rows),
                 risk_tier |-> classify_risk(weighted)])

-----------------------------------------------------------------------------
(* Bounds and input sets.                                                  *)

\* Rows of a frame the caller builds.
MaxRows == 3

\* Raw inputs of the normalizers and factor scores handed to calculate:
\* negative, in range, on the edges, above one, and nan.
Reals == {Q(-1, 2), Q(0, 1), Q(1, 4), Q(1, 2), Q(4, 5), Q(1, 1), Q(3, 2), Q(3, 1), NaN}
Factors == {Q(-1, 2), Q(1, 2), Q(4, 5), Q(3, 2)}
Params == {Q(-1, 1), Q(0, 1), Q(1, 2), Q(1, 1), Q(5, 1), NaN}

\* Scores handed to classify_risk: the tier bounds, their neighbours at
\* 1e-4, and out-of-range values.
Scores ==
    {Q(-1, 1), Q(0, 1), Q(2499, 10000), Q(1, 4), Q(4999, 10000), Q(1, 2),
     Q(7499, 10000), Q(3, 4), Q(1, 1), Q(1005, 1000), Q(101, 100), Q(2, 1)}

\* Constructor arguments: the defaults, the defaults with the first weight
\* moved by a multiple of 1e-6 or by a large step, and the weights the
\* tests construct with.
TestWeights == <<Q(4, 10), Q(2, 10), Q(2, 10), Q(2, 10)>>
Deltas == {Q(0, 1), Q(1, 1000000), Q(-1, 1000000), Q(2, 1000000), Q(-2, 1000000),
           Q(-1, 2), Q(3, 10)}
ConstructArgs ==
    {[DefaultWeights EXCEPT ![1] = RAdd(DefaultWeights[1], e)] : e \in Deltas}
        \cup {TestWeights,
              <<Q(1, 2), Q(1, 2), Q(1, 2), Q(1, 2)>>,
              <<Q(-1, 10), Q(5, 10), Q(3, 10), Q(3, 10)>>,
              <<Q(1, 2), Q(1, 2), Q(1, 2), Q(-1, 2)>>}

\* Fields a caller assigns to, and the values it assigns.
AssignedFields == {"alpha_ccs", "delta_wm"}
Assigned == {Q(-1, 10)}

\* Measure records: in range; out of range upwards; negative and zero.
RawRows ==
    { [measure_id |-> "COL", completeness_rate |-> Q(9, 10), mapping_coverage |-> Q(4, 5),
       variance_ratio |-> Q(1, 1), cutpoint_shift |-> Q(1, 10), measure_weight |-> Q(1, 1)],
      [measure_id |-> "BCS", completeness_rate |-> Q(3, 2), mapping_coverage |-> Q(1, 1),
       variance_ratio |-> Q(3, 1), cutpoint_shift |-> Q(-1, 1), measure_weight |-> Q(3, 1)],
      [measure_id |-> "A1C", completeness_rate |-> Q(-1, 2), mapping_coverage |-> Q(0, 1),
       variance_ratio |-> Q(-1, 1), cutpoint_shift |-> Q(0, 1), measure_weight |-> Q(0, 1)] }

RawColumnSets ==
    { REQUIRED_SCORE \cup {"measure_id"},
      (REQUIRED_SCORE \ {"measure_weight"}) \cup {"measure_id"},
      (REQUIRED_SCORE \ {"variance_ratio", "completeness_rate"}) \cup {"measure_id"},
      {"measure_id"} }

\* Already scored records a caller hands to aggregate_contract directly.
ScoredRows ==
    { [measure_id |-> "COL", shock_index |-> Q(1, 2), measure_weight |-> Q(0, 1)],
      [measure_id |-> "BCS", shock_index |-> Q(3, 5), measure_weight |-> Q(0, 1)],
      [measure_id |-> "A1C", shock_index |-> Q(24996, 100000), measure_weight |-> Q(1, 1)],
      [measure_id |-> "CBP", shock_index |-> Q(3, 4), measure_weight |-> Q(3, 1)] }

ScoredColumnSets ==
    { REQUIRED_AGGREGATE, {"shock_index"}, {"measure_weight", "measure_id"},
      {"measure_id"} }

Restrict(row, cols) == [c \in cols |-> row[c]]

FramesOf(rowset, colsets) ==
    { [columns |-> cs, rows |-> [i \in DOMAIN rs |-> Restrict(rs[i], cs)]] :
        cs \in colsets, rs \in UNION {[1..n -> rowset] : n \in 0..MaxRows} }

RawFrames == FramesOf(RawRows, RawColumnSets)
ScoredFrames == FramesOf(ScoredRows, ScoredColumnSets)

\* (max_shift, max_weight): the defaults, the values of the tests' kind,
\* and a non-positive value for each.
ScoreParams ==
    { <<Q(1, 2), Q(5, 1)>>, <<Q(1, 1), Q(4, 1)>>, <<Q(0, 1), Q(5, 1)>>,
      <<Q(1, 2), Q(-1, 1)>> }

-----------------------------------------------------------------------------
(* The calls.  The caller makes one call at a time: call is the call it    *)
(* has just made, until it drops the result (Return).  A frame returned    *)
(* by score_dataframe can be handed on to score_dataframe or to            *)
(* aggregate_contract.                                                     *)

NoCall == [op |-> "none"]

Idle == call = NoCall

Returned == call.op = "score_dataframe" /\ call.out.raised = "none"

\* The frames the caller can pass to score_dataframe / aggregate_contract.
ScoreArgs == IF Idle THEN RawFrames ELSE IF Returned THEN {call.out.ret} ELSE {}
AggregateArgs == IF Idle THEN ScoredFrames ELSE IF Returned THEN {call.out.ret} ELSE {}

Init ==
    /\ calc = NoCalc
    /\ call = NoCall

Construct(w) ==
    LET out == ShockIndexCalculator(w[1], w[2], w[3], w[4])
    IN  /\ Idle
        /\ calc' = IF out.raised = "none" THEN out.ret ELSE calc
        /\ call' = [op |-> "ShockIndexCalculator", args |-> w, out |-> out]

\* calc.<field> = v: the dataclass is not frozen, so the assignment stores
\* the value; __post_init__ does not run again.
SetAttr(f, v) ==
    /\ Idle
    /\ calc # NoCalc
    /\ calc' = [calc EXCEPT ![f] = v]
    /\ call' = [op |-> "setattr", args |-> <<f, v>>, out |-> Ok("None")]

Calculate(ccs, eav, cpr, wm) ==
    /\ Idle
    /\ calc # NoCalc
    /\ call' = [op |-> "calculate", self |-> calc, args |-> <<ccs, eav, cpr, wm>>,
                out |-> calculate(calc, ccs, eav, cpr, wm)]
    /\ UNCHANGED calc

ScoreDataframe(df, p) ==
    /\ calc # NoCalc
    /\ call' = [op |-> "score_dataframe", self |-> calc, args |-> <<df, p[1], p[2]>>]
                    @@ score_dataframe(calc, df, p[1], p[2])
    /\ UNCHANGED calc

AggregateContract(df) ==
    /\ calc # NoCalc
    /\ call' = [op |-> "aggregate_contract", self |-> calc, args |-> <<df>>,
                out |-> aggregate_contract(calc, df)]
    /\ UNCHANGED calc

CallCcs(x, y) ==
    /\ Idle
    /\ call' = [op |-> "ccs_score", args |-> <<x, y>>, out |-> ccs_score(x, y)]
    /\ UNCHANGED calc

CallEav(x, p) ==
    /\ Idle
    /\ call' = [op |-> "eav_score", args |-> <<x, p>>, out |-> eav_score(x, p)]
    /\ UNCHANGED calc

CallCpr(x, p) ==
    /\ Idle
    /\ call' = [op |-> "cpr_score", args |-> <<x, p>>, out |-> cpr_score(x, p)]
    /\ UNCHANGED calc

CallWm(x, p) ==
    /\ Idle
    /\ call' = [op |-> "wm_score", args |-> <<x, p>>, out |-> wm_score(x, p)]
    /\ UNCHANGED calc

CallClassify(s) ==
    /\ Idle
    /\ call' = [op |-> "classify_risk", args |-> <<s>>, out |-> Ok(classify_risk(s))]
    /\ UNCHANGED calc

\* The caller drops the result of its last call.
Return ==
    /\ ~Idle
    /\ call' = NoCall
    /\ UNCHANGED calc

Next ==
    \/ \E w \in ConstructArgs : Construct(w)
    \/ \E f \in AssignedFields, v \in Assigned : SetAttr(f, v)
    \/ \E a, b, c, d \in Factors : Calculate(a, b, c, d)
    \/ \E df \in ScoreArgs, p \in ScoreParams : ScoreDataframe(df, p)
    \/ \E df \in AggregateArgs : AggregateContract(df)
    \/ \E x, y \in Reals : CallCcs(x, y)
    \/ \E x \in Reals, p \in Params : CallEav(x, p)
    \/ \E x \in Reals, p \in Params : CallCpr(x, p)
    \/ \E x \in Reals, p \in Params : CallWm(x, p)
    \/ \E s \in Scores : CallClassify(s)
    \/ Return

Spec == Init /\ [][Next]_vars

-----------------------------------------------------------------------------
(* Properties.  They are stated over call, the record of the last call,    *)
(* with their own reading of the numbers: In01, ClaimClip and ClaimTier    *)
(* compare numerators and denominators or case-split on the claim's        *)
(* intervals instead of using the program's helpers.                       *)

In01(x) == x[2] > 0 /\ 0 <= x[1] /\ x[1] <= x[2]

Succeeded == call.out.raised = "none"

FactorColumns == {"ccs", "eav", "cpr", "wm", "shock_index"}
Normalizers == {"ccs_score", "eav_score", "cpr_score", "wm_score"}

\* C1: every normalizer result, every result of calculate and every ccs,
\* eav, cpr, wm and shock_index value of a scored record lies in [0, 1],
\* whatever the inputs (negative and above one included).
C1_Bounded ==
    /\ (call.op \in Normalizers \cup {"calculate"} /\ Succeeded) => In01(call.out.ret)
    /\ (call.op = "score_dataframe" /\ Succeeded) =>
          \A i \in 1..Len(call.out.ret.rows) :
              \A c \in FactorColumns : In01(call.out.ret.rows[i][c])

\* A scored frame holding a record whose raw inputs are above range and one
\* whose raw inputs are negative, scored by an instance with a negative weight.
C1_Witness ==
    /\ call.op = "score_dataframe"
    /\ Succeeded
    /\ \E f \in Fields : call.self[f][1] < 0
    /\ \E i, j \in 1..Len(call.out.ret.rows) :
          /\ RLt(One, call.out.ret.rows[i]["completeness_rate"])
          /\ call.out.ret.rows[i]["ccs"] = One
          /\ RLt(call.out.ret.rows[j]["variance_ratio"], Zero)
          /\ call.out.ret.rows[j]["eav"] = Zero

\* A weight in millionths (the constructor arguments are multiples of 1e-6).
Micro(x) == x[1] * (1000000 \div x[2])

ClaimValidWeights(w) ==
    /\ \A i \in 1..4 : w[i][1] >= 0
    /\ Abs(Micro(w[1]) + Micro(w[2]) + Micro(w[3]) + Micro(w[4]) - 1000000) <= 1

InstanceOf(w) ==
    [alpha_ccs |-> w[1], beta_eav |-> w[2], gamma_cpr |-> w[3], delta_wm |-> w[4]]

ClaimClip(x) == IF RLt(x, Zero) THEN Zero ELSE IF RLt(One, x) THEN One ELSE x

\* C3: calculate never fails and returns
\* clip01(alpha*clip01(ccs) + beta*clip01(eav) + gamma*clip01(cpr) + delta*clip01(wm));
\* with weights (0.4, 0.2, 0.2, 0.2) and inputs (0.8, 0.5, 0.5, 0.5) that is 0.62.
C3_Calculate ==
    call.op = "calculate" =>
        /\ Succeeded
        /\ call.out.ret =
              ClaimClip(RAdd(RAdd(RAdd(RMul(call.self.alpha_ccs, ClaimClip(call.args[1])),
                                       RMul(call.self.beta_eav, ClaimClip(call.args[2]))),
                                  RMul(call.self.gamma_cpr, ClaimClip(call.args[3]))),
                             RMul(call.self.delta_wm, ClaimClip(call.args[4]))))
        /\ (call.self = InstanceOf(TestWeights)
              /\ call.args = <<Q(8, 10), Q(5, 10), Q(5, 10), Q(5, 10)>>)
             => call.out.ret = Q(62, 100)

\* The example of the claim, and a call with inputs on both sides of [0, 1].
C3_Witness ==
    /\ call.op = "calculate"
    /\ call.self = InstanceOf(TestWeights)
    /\ call.args = <<Q(8, 10), Q(5, 10), Q(5, 10), Q(5, 10)>>
    /\ call.out.ret = Q(62, 100)

ClaimTier(s) ==
    IF RLt(s, Q(25, 100)) THEN "low"
    ELSE IF RLt(s, Q(50, 100)) THEN "moderate"
    ELSE IF RLt(s, Q(75, 100)) THEN "high"
    ELSE "critical"

\* C4: classify_risk is total: low below 0.25 (every negative score
\* included), moderate on [0.25, 0.50), high on [0.50, 0.75), critical from
\* 0.75 on (every score above 1 included).
C4_Classify ==
    call.op = "classify_risk" =>
        /\ Succeeded
        /\ call.out.ret = ClaimTier(call.args[1])
        /\ (call.args[1] = Q(25, 100)) => call.out.ret = "moderate"
        /\ (call.args[1] = Q(50, 100)) => call.out.ret = "high"
        /\ (call.args[1] = Q(75, 100)) => call.out.ret = "critical"
        /\ (call.args[1][1] < 0) => call.out.ret = "low"
        /\ (call.args[1][1] > call.args[1][2]) => call.out.ret = "critical"

\* classify_risk(0.25) returned moderate.
C4_Witness ==
    /\ call.op = "classify_risk"
    /\ call.args[1] = Q(25, 100)
    /\ call.out.ret = "moderate"

\* C5: after a successful construction the four weights never change,
\* whatever the caller does with the instance, so they stay non-negative
\* with a sum within 1e-6 of 1.0.  (The dataclass is not frozen: an
\* attribute assignment changes a weight and nothing validates it.)
C5_WeightsImmutable ==
    [][ (calc # NoCalc /\ ~(call'.op = "ShockIndexCalculator" /\ call' # call)) =>
          /\ calc' = calc
          /\ ClaimValidWeights(<<calc'.alpha_ccs, calc'.beta_eav, calc'.gamma_cpr,
                                 calc'.delta_wm>>) ]_vars

Derived == {"ccs", "eav", "cpr", "wm", "shock_index", "risk_tier"}

HasAll(frame, names) == names \subseteq frame.columns

ScoreFields ==
    {"completeness_rate", "mapping_coverage", "variance_ratio", "cutpoint_shift",
     "measure_weight"}
AggregateFields == {"shock_index", "measure_weight"}

Positive(x) == x[2] > 0 /\ x[1] > 0

\* What score_dataframe keeps of its input, for the input columns in kept.
ScoreKeeps(kept) ==
    LET in == call.args[1]
        out == call.out.ret
    IN  /\ Len(out.rows) = Len(in.rows)
        /\ out.columns = in.columns \cup Derived
        /\ \A i \in 1..Len(in.rows) :
              /\ DOMAIN out.rows[i] = out.columns
              /\ \A c \in kept : out.rows[i][c] = in.rows[i][c]
        /\ call.arg = in

ScoresAll ==
    /\ call.op = "score_dataframe"
    /\ HasAll(call.args[1], ScoreFields)
    /\ Positive(call.args[2])
    /\ Positive(call.args[3])

ClaimRank ==
    [completeness_rate |-> 1, cutpoint_shift |-> 2, mapping_coverage |-> 3,
     measure_weight |-> 4, shock_index |-> 5, variance_ratio |-> 6]

MissingReported(required) ==
    LET absent == required \ call.args[1].columns
        names == call.out.names
    IN  /\ (absent # {}) <=>
              (~Succeeded /\ call.out.msg = "DataFrame is missing required columns")
        /\ (absent # {}) =>
              /\ call.out.raised = "ValueError"
              /\ {names[i] : i \in 1..Len(names)} = absent
              /\ \A i, j \in 1..Len(names) :
                    (i < j) => ClaimRank[names[i]] < ClaimRank[names[j]]
              /\ "ret" \notin DOMAIN call.out

\* C7: score_dataframe (aggregate_contract) raises the missing-columns
\* ValueError exactly when one of its five (two) required columns is
\* absent; the error names exactly the absent required columns, sorted; it
\* comes before any score is computed (also when max_shift or max_weight is
\* not positive), nothing is returned and the input is untouched.
C7_MissingFields ==
    /\ (call.op = "score_dataframe") =>
          /\ MissingReported(ScoreFields)
          /\ ~HasAll(call.args[1], ScoreFields) => call.arg = call.args[1]
    /\ (call.op = "aggregate_contract") => MissingReported(AggregateFields)

\* score_dataframe with max_shift = 0 on records without variance_ratio and
\* completeness_rate: the error names both, sorted.
C7_Witness ==
    /\ call.op = "score_dataframe"
    /\ Len(call.args[1].rows) > 0
    /\ call.args[2] = Zero
    /\ ~Succeeded
    /\ call.out.msg = "DataFrame is missing required columns"
    /\ call.out.names = <<"completeness_rate", "variance_ratio">>

\* Sums, mean and maximum of the claim, by index.
RECURSIVE ClaimSum(_, _)
ClaimSum(f, n) == IF n = 0 THEN Zero ELSE RAdd(f[n], ClaimSum(f, n - 1))

ClaimShock(df) == [i \in 1..Len(df.rows) |-> df.rows[i]["shock_index"]]
ClaimWeight(df) == [i \in 1..Len(df.rows) |-> df.rows[i]["measure_weight"]]
ClaimProduct(df) ==
    [i \in 1..Len(df.rows) |->
        RMul(df.rows[i]["shock_index"], df.rows[i]["measure_weight"])]

ClaimTotalWeight(df) == ClaimSum(ClaimWeight(df), Len(df.rows))

ClaimWeighted(df) ==
    IF ClaimTotalWeight(df)[1] = 0 THEN Zero
    ELSE RDiv(ClaimSum(ClaimProduct(df), Len(df.rows)), ClaimTotalWeight(df))

ClaimMean(df) == RDiv(ClaimSum(ClaimShock(df), Len(df.rows)), Q(Len(df.rows), 1))

ClaimMax(df) ==
    LET xs == ClaimShock(df)
    IN  xs[CHOOSE i \in 1..Len(df.rows) : \A j \in 1..Len(df.rows) : RLe(xs[j], xs[i])]

\* r is x rounded to 4 decimals: a multiple of 1/10000 at most 0.00005 away.
Rounded4(r, x) ==
    /\ r[2] > 0
    /\ 10000 % r[2] = 0
    /\ RLe(RAbs(RSub(r, x)), Q(1, 20000))

Aggregates ==
    /\ call.op = "aggregate_contract"
    /\ HasAll(call.args[1], AggregateFields)

\* C8: for a non-empty scored collection aggregate_contract returns the
\* measure-weight-weighted average of shock_index (exactly 0.0 when the
\* weights sum to 0), the mean, the maximum and the record count, the three
\* numbers rounded to 4 decimals; for weights [1, 1, 3] the weighted index
\* is (x + y + 3z)/5; max_shock_index >= mean_shock_index.
C8_Aggregate ==
    (Aggregates /\ Len(call.args[1].rows) > 0) =>
        LET df == call.args[1]
            ret == call.out.ret
            x == ClaimShock(df)
        IN  /\ Succeeded
            /\ (ClaimTotalWeight(df)[1] # 0) =>
                  Rounded4(ret.weighted_shock_index, ClaimWeighted(df))
            /\ (ClaimTotalWeight(df)[1] = 0) => ret.weighted_shock_index = Zero
            /\ (ClaimWeight(df) = <<Q(1, 1), Q(1, 1), Q(3, 1)>>) =>
                  Rounded4(ret.weighted_shock_index,
                           RDiv(RAdd(RAdd(x[1], x[2]), RMul(Q(3, 1), x[3])), Q(5, 1)))
            /\ ret.measure_count = Len(df.rows)
            /\ Rounded4(ret.mean_shock_index, ClaimMean(df))
            /\ Rounded4(ret.max_shock_index, ClaimMax(df))
            /\ RLe(ret.mean_shock_index, ret.max_shock_index)

\* The summary of three scored records with weights 1, 1, 3 whose shock
\* indices differ.
C8_Witness ==
    /\ Aggregates
    /\ Succeeded
    /\ ClaimWeight(call.args[1]) = <<Q(1, 1), Q(1, 1), Q(3, 1)>>
    /\ "ccs" \in call.args[1].columns
    /\ call.args[1].rows[1]["shock_index"] # call.args[1].rows[3]["shock_index"]
    /\ call.out.ret.measure_count = 3
    /\ call.out.ret.weighted_shock_index # call.out.ret.mean_shock_index

\* C9 as stated: the risk_tier of a summary is classify_risk of the
\* weighted_shock_index field of that summary (the rounded value).
C9_TierOfField ==
    (Aggregates /\ Succeeded) =>
        call.out.ret.risk_tier = ClaimTier(call.out.ret.weighted_shock_index)

TierBounds == {Q(25, 100), Q(50, 100), Q(75, 100)}

\* C9 as amended: the risk_tier of a summary is the tier of the weighted
\* average before rounding; it differs from the tier of the rounded
\* weighted_shock_index field only when the unrounded average lies less
\* than 0.00005 below a tier bound.
C9_TierOfExact ==
    (Aggregates /\ Succeeded) =>
        LET exact == ClaimWeighted(call.args[1])
            ret == call.out.ret
        IN  /\ ret.risk_tier = ClaimTier(exact)
            /\ (ret.risk_tier # ClaimTier(ret.weighted_shock_index)) =>
                  \E b \in TierBounds :
                      /\ RLe(RSub(b, Q(1, 20000)), exact)
                      /\ RLt(exact, b)

\* A summary that shows weighted_shock_index 0.25 with risk_tier low.
C9_Witness ==
    /\ Aggregates
    /\ Succeeded
    /\ call.out.ret.weighted_shock_index = Q(25, 100)
    /\ call.out.ret.risk_tier = "low"

\* C10: aggregate_contract on zero records (required columns present)
\* fails with an error, and no summary it returns has a NaN
\* mean_shock_index or max_shock_index.
C10_EmptyPolicy ==
    Aggregates =>
        /\ (Len(call.args[1].rows) = 0) => ~Succeeded
        /\ Succeeded => /\ ~IsNaN(call.out.ret.mean_shock_index)
                        /\ ~IsNaN(call.out.ret.max_shock_index)

\* The message each parameterised normalizer raises with.
ClaimMessage ==
    [eav_score |-> "baseline must be greater than zero",
     cpr_score |-> "max_shift must be greater than zero",
     wm_score |-> "max_weight must be greater than zero"]

\* p <= 0 as a comparison of numbers (false for nan).
ClaimNotPositive(p) == p[2] > 0 /\ p[1] <= 0

\* C11: eav_score, cpr_score and wm_score raise ValueError exactly when
\* their denominator parameter is <= 0, whatever the data input, and then
\* return nothing; with a positive parameter, and for ccs_score always, no
\* data input (out of range, nan) causes an error.
C11_InvalidParameter ==
    /\ (call.op \in DOMAIN ClaimMessage) =>
          /\ ~Succeeded <=> ClaimNotPositive(call.args[2])
          /\ ~Succeeded => /\ call.out.raised = "ValueError"
                           /\ call.out.msg = ClaimMessage[call.op]
                           /\ "ret" \notin DOMAIN call.out
    /\ (call.op = "ccs_score") => Succeeded

\* cpr_score(3.0, 0.0) raised.
C11_Witness ==
    /\ call.op = "cpr_score"
    /\ call.args = <<Q(3, 1), Zero>>
    /\ call.out.raised = "ValueError"

ClaimScored(self, row, max_shift, max_weight) ==
    LET ccs == ccs_score(row["completeness_rate"], row["mapping_coverage"]).ret
        eav == eav_score(row["variance_ratio"], One).ret
        cpr == cpr_score(row["cutpoint_shift"], max_shift).ret
        wm == wm_score(row["measure_weight"], max_weight).ret
        shock == calculate(self, ccs, eav, cpr, wm).ret
    IN  [ccs |-> ccs, eav |-> eav, cpr |-> cpr, wm |-> wm, shock_index |-> shock,
         risk_tier |-> classify_risk(shock)]

RECURSIVE ClaimReverse(_)
ClaimReverse(seq) ==
    IF seq = <<>> THEN <<>> ELSE Append(ClaimReverse(Tail(seq)), Head(seq))

\* The scored records score_dataframe returns for the given records.
ClaimScoredRows(rows) ==
    score_dataframe(call.self, [call.args[1] EXCEPT !.rows = rows],
                    call.args[2], call.args[3]).out.ret.rows

\* C13: in a scored collection the six derived fields of record i are
\* functions of record i's own raw fields and of max_shift and max_weight
\* (eav with baseline 1.0); a record scored alone gets the same values, and
\* scoring the records in reverse order gives the same records reversed.
C13_PerRecord ==
    (call.op = "score_dataframe" /\ Succeeded) =>
        LET in == call.args[1].rows
            out == call.out.ret.rows
        IN  /\ \A i \in 1..Len(in) :
                  /\ \A c \in Derived :
                        out[i][c] = ClaimScored(call.self, in[i], call.args[2],
                                                call.args[3])[c]
                  /\ ClaimScoredRows(<<in[i]>>) = <<out[i]>>
            /\ ClaimScoredRows(ClaimReverse(in)) = ClaimReverse(out)

\* Three records scored together, the first and the third with the same
\* raw fields and the second with others.
C13_Witness ==
    /\ call.op = "score_dataframe"
    /\ Succeeded
    /\ Len(call.args[1].rows) = 3
    /\ call.args[1].rows[1] = call.args[1].rows[3]
    /\ call.out.ret.rows[1] = call.out.ret.rows[3]
    /\ call.out.ret.rows[1]["shock_index"] # call.out.ret.rows[2]["shock_index"]
    /\ call.out.ret.rows[1]["risk_tier"] # call.out.ret.rows[2]["risk_tier"]

\* score_dataframe was handed records with all required fields and a
\* max_shift or max_weight that is <= 0.
ScoresInvalid ==
    /\ call.op = "score_dataframe"
    /\ HasAll(call.args[1], ScoreFields)
    /\ ClaimNotPositive(call.args[2]) \/ ClaimNotPositive(call.args[3])

\* The call raised the error of a normalizer, returned nothing and left the
\* caller's frame as it was.
FailsInvalid ==
    /\ call.out.raised = "ValueError"
    /\ call.out.msg = IF ClaimNotPositive(call.args[2])
                      THEN ClaimMessage["cpr_score"] ELSE ClaimMessage["wm_score"]
    /\ "ret" \notin DOMAIN call.out
    /\ call.arg = call.args[1]

\* C14 as stated: score_dataframe with max_shift <= 0 or max_weight <= 0
\* fails with the normalizer's ValueError on any collection of records that
\* has the required fields, returns nothing and leaves the input unchanged.
C14_InvalidFailsAlways ==
    ScoresInvalid => FailsInvalid

\* C14 as amended: the same on any collection of at least one record (the
\* error is that of cpr_score when max_shift <= 0, else that of wm_score);
\* on a collection of no records no normalizer is called and the call
\* returns the empty scored collection.
C14_InvalidFailsNonEmpty ==
    ScoresInvalid =>
        /\ (Len(call.args[1].rows) > 0) => FailsInvalid
        /\ (Len(call.args[1].rows) = 0) =>
              /\ Succeeded
              /\ call.out.ret.rows = <<>>
              /\ call.out.ret.columns = call.args[1].columns \cup Derived
              /\ call.arg = call.args[1]

\* Three records scored with max_weight = -1: ccs, eav and cpr have been
\* computed when wm_score raises; nothing is returned and the caller's frame
\* has none of the derived fields.
C14_Witness ==
    /\ ScoresInvalid
    /\ Len(call.args[1].rows) = 3
    /\ Positive(call.args[2])
    /\ call.out.raised = "ValueError"
    /\ call.out.msg = "max_weight must be greater than zero"
    /\ call.arg.columns \cap Derived = {}

\* The weighted sum of the clamped inputs of the last calculate call, before
\* the final clamp.
ClaimWeightedSum ==
    RAdd(RAdd(RAdd(RMul(call.self.alpha_ccs, ClaimClip(call.args[1])),
                   RMul(call.self.beta_eav, ClaimClip(call.args[2]))),
              RMul(call.self.gamma_cpr, ClaimClip(call.args[3]))),
         RMul(call.self.delta_wm, ClaimClip(call.args[4])))

ClaimSelfWeights ==
    <<call.self.alpha_ccs, call.self.beta_eav, call.self.gamma_cpr, call.self.delta_wm>>

\* calculate was called on an instance whose weights construction accepts.
CalculatesValid ==
    /\ call.op = "calculate"
    /\ ClaimValidWeights(ClaimSelfWeights)

\* The sum of the four weights of the instance, in millionths.
ClaimMicroSum ==
    Micro(ClaimSelfWeights[1]) + Micro(ClaimSelfWeights[2])
        + Micro(ClaimSelfWeights[3]) + Micro(ClaimSelfWeights[4])

\* C15 as stated: with weights that construction accepts, the weighted sum
\* of the clamped inputs lies in [0, 1] before the final clamp, so the
\* clamp never changes the value.
C15_ClampRedundant ==
    CalculatesValid =>
        /\ In01(ClaimWeightedSum)
        /\ call.out.ret = ClaimWeightedSum

\* C15 as amended: with weights that construction accepts, the weighted sum
\* lies in [0, 1 + 1e-6]; the final clamp leaves it unchanged when the
\* weights sum to at most 1.0; the weighted sum exceeds 1 only with weights
\* that sum to more than 1.0, and then the final clamp lowers it to 1.0.
C15_ClampBounded ==
    CalculatesValid =>
        /\ RLe(Zero, ClaimWeightedSum)
        /\ RLe(ClaimWeightedSum, Q(1000001, 1000000))
        /\ (ClaimMicroSum <= 1000000) => call.out.ret = ClaimWeightedSum
        /\ RLt(One, ClaimWeightedSum) =>
              /\ ClaimMicroSum > 1000000
              /\ call.out.ret = One

\* An instance constructed with weights that sum to 1.000001 computes a
\* weighted sum of 1.000001 for four inputs of 1.5 and returns 1.0.
C15_Witness ==
    /\ CalculatesValid
    /\ ClaimMicroSum = 1000001
    /\ call.args = <<Q(3, 2), Q(3, 2), Q(3, 2), Q(3, 2)>>
    /\ ClaimWeightedSum = Q(1000001, 1000000)
    /\ call.out.ret = One

====
